---- MODULE Spec2Model ----
(***************************************************************************)
(* Model of pkg/controller/metrics/metrics.go: the cluster accumulator,    *)
(* the job classifier and the Calculator.Start loop.                       *)
(*                                                                         *)
(* Time is counted in minutes.  A Go string that the code parses           *)
(* (a bucket duration such as "1h") is a sequence of one-character         *)
(* strings, so that time.ParseDuration is computed and not assumed.        *)
(* A Go map is a function whose DOMAIN is the map's key set.  A pointer    *)
(* that may be nil is a sequence of length 0 (nil) or 1.                   *)
(***************************************************************************)
EXTENDS Integers, Sequences, FiniteSets

VARIABLES
    ca,          \* the clusterAccumulator under test (its four maps and filter)
    err,         \* TRUE when newClusterAccumulator returned an error (ca is nil)
    buckets,     \* the uninstalledDurationBuckets the accumulator was built with
    cd,          \* the argument of the latest processCluster call (<<>> before any)
    panicked,    \* TRUE once processCluster hit a runtime panic
    calls,       \* number of processCluster calls made so far
    seenTypes,   \* resolved types of the records processed (not cutoff-skipped)
    matched,     \* <<dimension, type>> pairs some processed record matched
    ensured,     \* the direct calls of ensureClusterTypeBuckets: the type, and total[type] before
    jobs,        \* the argument of processJobs
    jobTotals,   \* what processJobs returned (<<>> before the call)
    loop,        \* where wait.Until stands: "check", "running", "sleep", "returned", "crashed"
    pass,        \* where the pass stands: "idle", "clusters", "installJobs", "uninstallJobs"
    stopped,     \* TRUE once stopCh is closed
    passes,      \* passes started so far
    inFlight,    \* invocations of the pass function that have not ended
    gauges,      \* the registered gauges: label tuple -> value, and four scalars
    attempted,   \* the List calls made by the current pass
    failed,      \* the List calls of the current pass that returned an error
    written      \* the gauges the current pass has set

accVars == <<ca, err, buckets, cd, panicked, calls, seenTypes, matched, ensured>>

jobVars == <<jobs, jobTotals>>

startVars == <<loop, pass, stopped, passes, inFlight, gauges, attempted, failed, written>>

vars == <<accVars, jobVars, startVars>>

----------------------------------------------------------------------------
(* Bounds *)

\* processCluster calls made on one accumulator
MaxRecords == 2

\* length of the job list given to processJobs
MaxJobs == 3

\* largest job.Status.Failed
MaxFailed == 2

\* passes the Start loop begins
MaxPasses == 2

\* direct calls of ensureClusterTypeBuckets made on one accumulator
MaxEnsures == 2

----------------------------------------------------------------------------
(* Go maps *)

EmptyMap == [k \in {} |-> 0]

Put(m, k, v) == [x \in (DOMAIN m) \cup {k} |-> IF x = k THEN v ELSE m[x]]

----------------------------------------------------------------------------
(* time.ParseDuration, restricted to unsigned whole numbers with the units *)
(* "h" and "m" (the result is in minutes).                                 *)

Digits == {"0", "1", "2", "3", "4", "5", "6", "7", "8", "9"}

DigitVal(c) ==
    CASE c = "0" -> 0 [] c = "1" -> 1 [] c = "2" -> 2 [] c = "3" -> 3
      [] c = "4" -> 4 [] c = "5" -> 5 [] c = "6" -> 6 [] c = "7" -> 7
      [] c = "8" -> 8 [] c = "9" -> 9

\* unitMap of package time, in minutes
UnitKnown(u) == u \in {<<"h">>, <<"m">>}

UnitMinutes(u) == IF u = <<"h">> THEN 60 ELSE 1

\* length of the longest prefix of s made of digits (isDigit = TRUE) or of
\* non-digits (isDigit = FALSE)
RECURSIVE RunLen(_, _)
RunLen(s, isDigit) ==
    IF s = <<>> \/ ((Head(s) \in Digits) # isDigit) THEN 0
    ELSE 1 + RunLen(Tail(s), isDigit)

RECURSIVE DecVal(_, _)
DecVal(s, acc) ==
    IF s = <<>> THEN acc ELSE DecVal(Tail(s), acc * 10 + DigitVal(Head(s)))

\* the loop of ParseDuration over the groups <digits><unit>
RECURSIVE ParseGroups(_, _)
ParseGroups(s, acc) ==
    IF s = <<>> THEN [err |-> FALSE, d |-> acc]
    ELSE LET nd   == RunLen(s, TRUE)
             rest == SubSeq(s, nd + 1, Len(s))
             nu   == RunLen(rest, FALSE)
             unit == SubSeq(rest, 1, nu)
         IN  IF nd = 0 \/ nu = 0 \/ ~UnitKnown(unit)
             THEN [err |-> TRUE, d |-> 0]
             ELSE ParseGroups(SubSeq(rest, nu + 1, Len(rest)),
                              acc + DecVal(SubSeq(s, 1, nd), 0) * UnitMinutes(unit))

ParseDuration(s) ==
    IF s = <<"0">> THEN [err |-> FALSE, d |-> 0]
    ELSE IF s = <<>> THEN [err |-> TRUE, d |-> 0]
    ELSE ParseGroups(s, 0)

----------------------------------------------------------------------------
(* The API types the accumulator reads *)

\* hivev1.HiveClusterTypeLabel
HiveClusterTypeLabel == "hive.openshift.io/cluster-type"

\* hivev1.DefaultClusterType
DefaultClusterType == "unspecified"

\* hivev1.AllClusterDeploymentConditions
AllClusterDeploymentConditions == {"ClusterImageSetNotFound", "Unreachable"}

\* corev1.ConditionTrue
ConditionTrue == "True"

\* a condition type that is not in AllClusterDeploymentConditions
OtherCondition == "Hibernating"

\* the instant time.Since reads, and the creation timestamps of the records:
\* ages of 0, 60 and 90 minutes
Now == 90

CreationTimestamps == {0, 30, 90}

\* ObjectMeta.Labels: nil, a map without the cluster-type label, or a map
\* holding it with an empty, the default or another value
NilLabels == [nil |-> TRUE, m |-> [k \in {} |-> ""]]

LabelSets ==
    {NilLabels, [nil |-> FALSE, m |-> [k \in {"region"} |-> "east"]]}
    \cup {[nil |-> FALSE, m |-> [k \in {HiveClusterTypeLabel} |-> v]] :
              v \in {"", DefaultClusterType, "managed"}}

\* Status.Conditions: no entry, known entries that are true or false, and an
\* entry of a type outside the known set before or after a known true entry
ConditionLists ==
    {<<>>,
     <<[Type |-> "ClusterImageSetNotFound", Status |-> ConditionTrue],
       [Type |-> "Unreachable", Status |-> "False"]>>,
     <<[Type |-> "Unreachable", Status |-> ConditionTrue]>>,
     <<[Type |-> OtherCondition, Status |-> ConditionTrue],
       [Type |-> "ClusterImageSetNotFound", Status |-> ConditionTrue]>>,
     <<[Type |-> "ClusterImageSetNotFound", Status |-> ConditionTrue],
       [Type |-> OtherCondition, Status |-> ConditionTrue]>>}

\* hivev1.ClusterDeployment, the fields processCluster reads
ClusterDeployments ==
    {[Labels |-> l, CreationTimestamp |-> c, Status |-> [Installed |-> i, Conditions |-> cs]] :
        l \in LabelSets, c \in CreationTimestamps, i \in BOOLEAN, cs \in ConditionLists}

\* bucket strings given to newClusterAccumulator
B0h == <<"0", "h">>
B1h == <<"1", "h">>
BBad == <<"1", "x">>

BucketLists == {<<B0h, B1h>>, <<B0h, BBad>>}

\* clusterCreationTimeFilter: nil or 1 hour
Filters == {<<>>, <<60>>}

----------------------------------------------------------------------------
(* clusterAccumulator *)

\* the loop of newClusterAccumulator over uninstalledDurationBuckets
RECURSIVE parseBuckets(_, _)
parseBuckets(durStrs, uninst) ==
    IF durStrs = <<>> THEN [err |-> FALSE, uninstalled |-> uninst]
    ELSE IF ParseDuration(Head(durStrs)).err
         THEN [err |-> TRUE, uninstalled |-> uninst]
         ELSE parseBuckets(Tail(durStrs), Put(uninst, Head(durStrs), EmptyMap))

NilAccumulator ==
    [clusterCreationTimeFilter |-> <<>>, total |-> EmptyMap, installed |-> EmptyMap,
     uninstalled |-> EmptyMap, conditions |-> EmptyMap]

newClusterAccumulator(clusterCreationTimeFilter, uninstalledDurationBuckets) ==
    LET r == parseBuckets(uninstalledDurationBuckets, EmptyMap)
    IN  IF r.err THEN [err |-> TRUE, ca |-> NilAccumulator]
        ELSE [err |-> FALSE,
              ca  |-> [clusterCreationTimeFilter |-> clusterCreationTimeFilter,
                       total       |-> EmptyMap,
                       installed   |-> EmptyMap,
                       uninstalled |-> r.uninstalled,
                       conditions  |-> [c \in AllClusterDeploymentConditions |-> EmptyMap]]]

\* mutant: the assignment without the "if !ok" around it
seedZeroAlways(m, clusterType) == Put(m, clusterType, 0)

\* "if !ok { m[clusterType] = 0 }"
seedZero(m, clusterType) ==
    IF clusterType \in DOMAIN m THEN m ELSE Put(m, clusterType, 0)

\* mutant: the loops over ca.uninstalled and ca.conditions are left out
ensureTotalsOnly(acc, clusterType) ==
    [acc EXCEPT !.total     = seedZero(@, clusterType),
                !.installed = seedZero(@, clusterType)]

ensureClusterTypeBuckets(acc, clusterType) ==
    [acc EXCEPT !.total       = seedZero(@, clusterType),
                !.installed   = seedZero(@, clusterType),
                !.uninstalled = [k \in DOMAIN @ |-> seedZero(@[k], clusterType)],
                !.conditions  = [k \in DOMAIN @ |-> seedZero(@[k], clusterType)]]

\* mutant: no default for a record without the label
GetClusterDeploymentTypeNoDefault(d) ==
    IF d.Labels.nil \/ HiveClusterTypeLabel \notin DOMAIN d.Labels.m THEN ""
    ELSE d.Labels.m[HiveClusterTypeLabel]

GetClusterDeploymentType(d) ==
    IF d.Labels.nil THEN DefaultClusterType
    ELSE IF HiveClusterTypeLabel \notin DOMAIN d.Labels.m THEN DefaultClusterType
    ELSE d.Labels.m[HiveClusterTypeLabel]

\* time.Since(cd.CreationTimestamp.Time)
Since(d) == Now - d.CreationTimestamp

\* mutant: ">=" for ">"
filteredOutInclusive(acc, d) ==
    /\ acc.clusterCreationTimeFilter # <<>>
    /\ Since(d) >= acc.clusterCreationTimeFilter[1]

\* the guard of the early return of processCluster
filteredOut(acc, d) ==
    /\ acc.clusterCreationTimeFilter # <<>>
    /\ Since(d) > acc.clusterCreationTimeFilter[1]

\* mutant: "<" for ">"
inBucketBelow(uninstalledDur, k) == uninstalledDur < ParseDuration(k).d

\* mutant: ">=" for ">"
inBucketInclusive(uninstalledDur, k) == uninstalledDur >= ParseDuration(k).d

\* "uninstalledDur > gtDurBucket"
inBucket(uninstalledDur, k) == uninstalledDur > ParseDuration(k).d

\* mutant: the buckets are counted outside the else branch
countInstallStateBoth(acc, d, clusterType) ==
    [acc EXCEPT !.installed[clusterType] = IF d.Status.Installed THEN @ + 1 ELSE @,
                !.uninstalled =
                    [k \in DOMAIN @ |->
                        IF inBucket(Since(d), k)
                        THEN [@[k] EXCEPT ![clusterType] = @ + 1]
                        ELSE @[k]]]

\* the installed / uninstalled branch of processCluster
countInstallState(acc, d, clusterType) ==
    IF d.Status.Installed
    THEN [acc EXCEPT !.installed[clusterType] = @ + 1]
    ELSE [acc EXCEPT !.uninstalled =
              [k \in DOMAIN @ |->
                  IF inBucket(Since(d), k)
                  THEN [@[k] EXCEPT ![clusterType] = @ + 1]
                  ELSE @[k]]]

\* the loop over cd.Status.Conditions; an increment through a key that
\* ca.conditions does not hold assigns into a nil map, which panics
RECURSIVE countConditions(_, _, _)
countConditions(conds, list, clusterType) ==
    IF list = <<>> THEN [conditions |-> conds, panicked |-> FALSE]
    ELSE LET cond == Head(list)
         IN  IF cond.Status # ConditionTrue
             THEN countConditions(conds, Tail(list), clusterType)
             ELSE IF cond.Type \notin DOMAIN conds
             THEN [conditions |-> conds, panicked |-> TRUE]
             ELSE countConditions(
                      [conds EXCEPT ![cond.Type][clusterType] = @ + 1],
                      Tail(list), clusterType)

processCluster(acc, d) ==
    IF filteredOut(acc, d) THEN [ca |-> acc, panicked |-> FALSE]
    ELSE LET clusterType == GetClusterDeploymentType(d)
             seeded  == ensureClusterTypeBuckets(acc, clusterType)
             counted == [seeded EXCEPT !.total[clusterType] = @ + 1]
             branched == countInstallState(counted, d, clusterType)
             r == countConditions(branched.conditions, d.Status.Conditions, clusterType)
         IN  [ca |-> [branched EXCEPT !.conditions = r.conditions],
              panicked |-> r.panicked]

----------------------------------------------------------------------------
(* An accumulator driven by a caller: constructed once, then fed records *)

\* the dimensions a processed record matches: installed, every bucket whose
\* threshold its age exceeds (not installed), every known condition it holds
\* with status true
Matches(acc, d) ==
    {<<"installed", <<>>>> : x \in {y \in {d} : y.Status.Installed}}
    \cup {<<"uninstalled", k>> :
              k \in {b \in DOMAIN acc.uninstalled :
                        ~d.Status.Installed /\ ParseDuration(b).d < Since(d)}}
    \cup {<<"condition", <<c>>>> :
              c \in {t \in AllClusterDeploymentConditions :
                        \E i \in 1..Len(d.Status.Conditions) :
                            /\ d.Status.Conditions[i].Type = t
                            /\ d.Status.Conditions[i].Status = ConditionTrue}}

\* the variables of the job classifier and of the Start loop while unused
JobsUnused == jobs = <<>> /\ jobTotals = <<>>

NoGauges ==
    [total |-> EmptyMap, installed |-> EmptyMap, uninstalled |-> EmptyMap,
     conditions |-> EmptyMap,
     installJobsRunning |-> 0, installJobsFailed |-> 0,
     uninstallJobsRunning |-> 0, uninstallJobsFailed |-> 0]

StartUnused ==
    /\ loop = "check" /\ pass = "idle" /\ stopped = FALSE /\ passes = 0
    /\ inFlight = 0 /\ gauges = NoGauges
    /\ attempted = {} /\ failed = {} /\ written = {}

Init ==
    /\ \E f \in Filters, b \in BucketLists :
           LET r == newClusterAccumulator(f, b)
           IN  ca = r.ca /\ err = r.err /\ buckets = b
    /\ cd = <<>>
    /\ panicked = FALSE
    /\ calls = 0
    /\ seenTypes = {}
    /\ matched = {}
    /\ ensured = <<>>
    /\ JobsUnused
    /\ StartUnused

ProcessCluster(d) ==
    /\ ~err
    /\ ~panicked
    /\ calls < MaxRecords
    /\ LET r == processCluster(ca, d)
       IN  ca' = r.ca /\ panicked' = r.panicked
    /\ cd' = <<d>>
    /\ calls' = calls + 1
    /\ IF filteredOut(ca, d)
       THEN UNCHANGED <<seenTypes, matched>>
       ELSE /\ seenTypes' = seenTypes \cup {GetClusterDeploymentType(d)}
            /\ matched' = matched \cup
                   {<<dim, GetClusterDeploymentType(d)>> : dim \in Matches(ca, d)}
    /\ UNCHANGED <<err, buckets, ensured, jobVars, startVars>>

Next == \E d \in ClusterDeployments : ProcessCluster(d)

Spec == Init /\ [][Next]_vars

----------------------------------------------------------------------------
(* Properties of the accumulator (specification Spec) *)

Range(seq) == {seq[i] : i \in 1..Len(seq)}

\* the count a map holds for a type, 0 when the map has no such key
Count(m, t) == IF t \in DOMAIN m THEN m[t] ELSE 0

\* a step that called processCluster; its argument is cd'[1]
Called == calls' = calls + 1

\* number of entries of d with status true and type c
RECURSIVE TrueEntries(_, _)
TrueEntries(list, c) ==
    IF list = <<>> THEN 0
    ELSE (IF Head(list).Type = c /\ Head(list).Status = ConditionTrue THEN 1 ELSE 0)
         + TrueEntries(Tail(list), c)

HasOtherTrueCondition(d) ==
    \E e \in Range(d.Status.Conditions) :
        e.Status = ConditionTrue /\ e.Type \notin AllClusterDeploymentConditions

\* C1 (zero-seeding): every resolved type of a processed record has a key in
\* total, in installed, in uninstalled[b] for every configured bucket b and in
\* conditions[c] for every known condition c, and the value is 0 in every
\* dimension that no processed record of that type matched.
ZeroSeeding ==
    ~err =>
      \A t \in seenTypes :
        /\ t \in DOMAIN ca.total
        /\ t \in DOMAIN ca.installed
        /\ <<<<"installed", <<>>>>, t>> \notin matched => ca.installed[t] = 0
        /\ \A b \in Range(buckets) :
              /\ b \in DOMAIN ca.uninstalled
              /\ t \in DOMAIN ca.uninstalled[b]
              /\ <<<<"uninstalled", b>>, t>> \notin matched => ca.uninstalled[b][t] = 0
        /\ \A c \in AllClusterDeploymentConditions :
              /\ c \in DOMAIN ca.conditions
              /\ t \in DOMAIN ca.conditions[c]
              /\ <<<<"condition", <<c>>>>, t>> \notin matched => ca.conditions[c][t] = 0

\* two types were processed; one is installed and without conditions, the
\* other is counted in a bucket and a condition only
ZeroSeedingWitness ==
    /\ seenTypes = {"managed", DefaultClusterType}
    /\ ca.installed["managed"] = 1
    /\ ca.installed[DefaultClusterType] = 0
    /\ ca.uninstalled[B1h]["managed"] = 0
    /\ ca.uninstalled[B1h][DefaultClusterType] = 1
    /\ ca.conditions["Unreachable"]["managed"] = 0
    /\ ca.conditions["Unreachable"][DefaultClusterType] = 1

\* C2 (bucket monotonicity): a processed, not installed record of age D adds
\* exactly one to uninstalled[b][type] for every configured bucket b whose
\* parsed threshold is < D and leaves every bucket with threshold >= D alone.
BucketMonotonicity ==
    [][(Called /\ ~filteredOut(ca, cd'[1]) /\ ~cd'[1].Status.Installed) =>
          LET d == cd'[1]
              t == GetClusterDeploymentType(d)
          IN  \A b \in Range(buckets) :
                  /\ t \in DOMAIN ca'.uninstalled[b]
                  /\ ca'.uninstalled[b][t] =
                         Count(ca.uninstalled[b], t)
                         + (IF ParseDuration(b).d < Since(d) THEN 1 ELSE 0)]_vars

\* the latest record is not installed and exactly one hour old: it is in the
\* 0h bucket and not in the 1h bucket
BucketMonotonicityWitness ==
    /\ cd # <<>>
    /\ ~err
    /\ ~filteredOut(ca, cd[1])
    /\ ~cd[1].Status.Installed
    /\ Since(cd[1]) = 60
    /\ calls = 1
    /\ ca.uninstalled[B0h][GetClusterDeploymentType(cd[1])] = 1
    /\ ca.uninstalled[B1h][GetClusterDeploymentType(cd[1])] = 0

\* C3 (mutual exclusivity): for every type t and every configured bucket b,
\* installed[t] + uninstalled[b][t] <= total[t].
MutualExclusivity ==
    ~err =>
      \A t \in DOMAIN ca.total :
        \A b \in Range(buckets) :
            Count(ca.installed, t) + Count(ca.uninstalled[b], t) <= ca.total[t]

\* one installed and one not installed record of the same type
MutualExclusivityWitness ==
    /\ ~err
    /\ DefaultClusterType \in DOMAIN ca.total
    /\ ca.total[DefaultClusterType] = 2
    /\ ca.installed[DefaultClusterType] = 1
    /\ ca.uninstalled[B0h][DefaultClusterType] = 1

\* C4 (unknown condition types are ignored): processing a record that holds a
\* true condition of a type outside the known set ends without a panic, keeps
\* the key set of conditions, and counts the record in total and in each of
\* its known true conditions.
UnknownConditionIgnored ==
    [][(Called /\ ~filteredOut(ca, cd'[1]) /\ HasOtherTrueCondition(cd'[1])) =>
          LET d == cd'[1]
              t == GetClusterDeploymentType(d)
          IN  /\ ~panicked'
              /\ DOMAIN ca'.conditions = AllClusterDeploymentConditions
              /\ ca'.total[t] = Count(ca.total, t) + 1
              /\ \A c \in AllClusterDeploymentConditions :
                     ca'.conditions[c][t] =
                         Count(ca.conditions[c], t) + TrueEntries(d.Status.Conditions, c)]_vars

\* C6 (cutoff filter): with a cutoff set, a record older than the cutoff
\* changes no map (its type is not even seeded); any other record is
\* processed: its type is counted once more in total.
CutoffNoSideEffect ==
    [][Called =>
          LET d == cd'[1]
              t == GetClusterDeploymentType(d)
              f == ca.clusterCreationTimeFilter
          IN  IF f # <<>> /\ Now - d.CreationTimestamp > f[1]
              THEN ca' = ca /\ ~panicked'
              ELSE /\ t \in DOMAIN ca'.total
                   /\ ca'.total[t] = Count(ca.total, t) + 1]_vars

\* the only record given so far is older than the cutoff and no map has a key;
\* and a record exactly as old as the cutoff is counted
CutoffSkipWitness ==
    /\ cd # <<>>
    /\ ~err
    /\ calls = 1
    /\ ca.clusterCreationTimeFilter = <<60>>
    /\ Since(cd[1]) = 90
    /\ DOMAIN ca.total = {}
    /\ \A b \in Range(buckets) : DOMAIN ca.uninstalled[b] = {}

\* the record d with its labels replaced by an explicit default cluster-type label
WithDefaultLabel(d) ==
    [d EXCEPT !.Labels =
        [nil |-> FALSE, m |-> [k \in {HiveClusterTypeLabel} |-> DefaultClusterType]]]

\* C7 (default type for an absent label): a record with no labels, or with
\* labels but no cluster-type label, resolves to DefaultClusterType and
\* changes the accumulator exactly as the same record labelled with
\* DefaultClusterType does.
DefaultTypeForAbsentLabel ==
    [][(Called /\ (cd'[1].Labels.nil
                   \/ HiveClusterTypeLabel \notin DOMAIN cd'[1].Labels.m)) =>
          LET d == cd'[1]
              r == processCluster(ca, WithDefaultLabel(d))
          IN  /\ GetClusterDeploymentType(d) = DefaultClusterType
              /\ ca' = r.ca
              /\ panicked' = r.panicked
              /\ ~filteredOut(ca, d) => DOMAIN ca'.total = DOMAIN ca.total \cup {DefaultClusterType}]_vars

\* a record without labels and one with labels but no cluster-type label
\* were both counted under the default type
DefaultTypeWitness ==
    /\ cd # <<>>
    /\ ~err
    /\ calls = 2
    /\ ~cd[1].Labels.nil
    /\ HiveClusterTypeLabel \notin DOMAIN cd[1].Labels.m
    /\ DOMAIN ca.total = {DefaultClusterType}
    /\ ca.total[DefaultClusterType] = 2

\* C8 (default type for an empty label): a processed record whose cluster-type
\* label is the empty string resolves to DefaultClusterType and is counted
\* under it.
EmptyLabelIsDefault ==
    (/\ cd # <<>>
     /\ ~err
     /\ ~filteredOut(ca, cd[1])
     /\ ~cd[1].Labels.nil
     /\ HiveClusterTypeLabel \in DOMAIN cd[1].Labels.m
     /\ cd[1].Labels.m[HiveClusterTypeLabel] = "")
    => /\ GetClusterDeploymentType(cd[1]) = DefaultClusterType
       /\ DefaultClusterType \in DOMAIN ca.total
       /\ "" \notin DOMAIN ca.total

----------------------------------------------------------------------------
(* processJobs *)

\* batchv1.Job, the fields processJobs reads; CompletionTime is a pointer
Jobs ==
    {[Status |-> [CompletionTime |-> c, Failed |-> f]] :
        c \in {<<>>, <<Now>>}, f \in 0..MaxFailed}

RECURSIVE SeqsUpTo(_, _)
SeqsUpTo(S, n) ==
    IF n = 0 THEN {<<>>}
    ELSE LET shorter == SeqsUpTo(S, n - 1)
         IN  shorter \cup {Append(q, x) : q \in {r \in shorter : Len(r) = n - 1}, x \in S}

JobLists == SeqsUpTo(Jobs, MaxJobs)

\* mutant: the test of CompletionTime is left out
RECURSIVE processJobsAnyCompletion(_)
processJobsAnyCompletion(list) ==
    IF list = <<>> THEN [runningTotal |-> 0, failedTotal |-> 0]
    ELSE LET rest == processJobsAnyCompletion(SubSeq(list, 1, Len(list) - 1))
             job  == list[Len(list)]
         IN  IF job.Status.Failed > 0
             THEN [rest EXCEPT !.failedTotal = @ + 1]
             ELSE [rest EXCEPT !.runningTotal = @ + 1]

\* the loop of processJobs: the totals after the last job are the totals
\* after the jobs before it, moved by the last job
RECURSIVE processJobs(_)
processJobs(list) ==
    IF list = <<>> THEN [runningTotal |-> 0, failedTotal |-> 0]
    ELSE LET rest == processJobs(SubSeq(list, 1, Len(list) - 1))
             job  == list[Len(list)]
         IN  IF job.Status.CompletionTime = <<>>
             THEN IF job.Status.Failed > 0
                  THEN [rest EXCEPT !.failedTotal = @ + 1]
                  ELSE [rest EXCEPT !.runningTotal = @ + 1]
             ELSE rest

JobsInit ==
    /\ jobs \in JobLists
    /\ jobTotals = <<>>
    /\ ca = NilAccumulator /\ err = FALSE /\ buckets = <<>> /\ cd = <<>>
    /\ panicked = FALSE /\ calls = 0 /\ seenTypes = {} /\ matched = {} /\ ensured = <<>>
    /\ StartUnused

ProcessJobs ==
    /\ jobTotals = <<>>
    /\ jobTotals' = <<processJobs(jobs)>>
    /\ UNCHANGED <<jobs, accVars, startVars>>

JobsNext == ProcessJobs

JobsSpec == JobsInit /\ [][JobsNext]_vars

\* the positions of the jobs that satisfy P
JobIndices(P(_)) == {i \in 1..Len(jobs) : P(jobs[i])}

IsRunning(job) == job.Status.CompletionTime = <<>> /\ job.Status.Failed = 0

IsFailed(job) == job.Status.CompletionTime = <<>> /\ job.Status.Failed > 0

IsIncomplete(job) == job.Status.CompletionTime = <<>>

\* C5 (job classification): processJobs returns running = the number of jobs
\* with no completion time and Failed = 0, failed = the number with no
\* completion time and Failed > 0; a job with a completion time moves neither,
\* so running + failed is the number of jobs without a completion time.
JobClassification ==
    jobTotals # <<>> =>
        /\ jobTotals[1].runningTotal = Cardinality(JobIndices(IsRunning))
        /\ jobTotals[1].failedTotal = Cardinality(JobIndices(IsFailed))
        /\ jobTotals[1].runningTotal + jobTotals[1].failedTotal
               = Cardinality(JobIndices(IsIncomplete))

\* a running job, a job that failed twice and a completed job with a failure
JobClassificationWitness ==
    /\ jobs = <<[Status |-> [CompletionTime |-> <<>>, Failed |-> 0]],
                [Status |-> [CompletionTime |-> <<>>, Failed |-> 2]],
                [Status |-> [CompletionTime |-> <<Now>>, Failed |-> 1]]>>
    /\ jobTotals = <<[runningTotal |-> 1, failedTotal |-> 1]>>

----------------------------------------------------------------------------
(* Calculator.Start: wait.Until runs the pass, then sleeps for mc.Interval *)

B2h == <<"2", "h">>
B8h == <<"8", "h">>
B24h == <<"2", "4", "h">>
B72h == <<"7", "2", "h">>

\* the buckets Start gives to newClusterAccumulator
StartBuckets == <<B0h, B1h, B2h, B8h, B24h, B72h>>

\* float64(v) of an int: the conversion is exact for every |v| < 2^53, and a
\* count is at most the number of records of one List call
Float64(v) == v

\* mutant: the gauge vector is reset before it is set, so the series of the
\* label tuples that are not in m drop to 0
SetAllReset(series, m) ==
    [x \in (DOMAIN series) \cup (DOMAIN m) |->
        IF x \in DOMAIN m THEN Float64(m[x]) ELSE 0]

\* GaugeVec.WithLabelValues(...).Set(float64(v)) for every entry of m; the
\* series of the other label tuples keep their value
SetAll(series, m) ==
    [x \in (DOMAIN series) \cup (DOMAIN m) |->
        IF x \in DOMAIN m THEN Float64(m[x]) ELSE series[x]]

\* the nested loops of setMetrics: WithLabelValues(k1, k) for m[k][k1]
ByLabels(m) ==
    [x \in {y \in (UNION {DOMAIN m[j] : j \in DOMAIN m}) \X (DOMAIN m) :
                 y[1] \in DOMAIN m[y[2]]}
        |-> m[x[2]][x[1]]]

\* mutant: the installed gauge is set from the total map
setMetricsInstalledFromTotal(g, acc) ==
    [g EXCEPT !.total       = SetAll(@, acc.total),
              !.installed   = SetAll(@, acc.total),
              !.uninstalled = SetAll(@, ByLabels(acc.uninstalled)),
              !.conditions  = SetAll(@, ByLabels(acc.conditions))]

setMetrics(g, acc) ==
    [g EXCEPT !.total       = SetAll(@, acc.total),
              !.installed   = SetAll(@, acc.installed),
              !.uninstalled = SetAll(@, ByLabels(acc.uninstalled)),
              !.conditions  = SetAll(@, ByLabels(acc.conditions))]

\* the gauge vectors setMetrics sets at least one series of
SetBy(acc) ==
    {n \in {"total", "installed", "uninstalled", "conditions"} :
        DOMAIN (IF n = "total" THEN acc.total
                ELSE IF n = "installed" THEN acc.installed
                ELSE IF n = "uninstalled" THEN ByLabels(acc.uninstalled)
                ELSE ByLabels(acc.conditions)) # {}}

\* "for _, cd := range clusterDeployments.Items { accumulator.processCluster(&cd) }"
RECURSIVE accumulate(_, _)
accumulate(acc, items) ==
    IF items = <<>> THEN [ca |-> acc, panicked |-> FALSE]
    ELSE LET r == processCluster(acc, Head(items))
         IN  IF r.panicked THEN r ELSE accumulate(r.ca, Tail(items))

\* what Client.List returns for the cluster deployments
NewCluster ==
    [Labels |-> NilLabels, CreationTimestamp |-> 30,
     Status |-> [Installed |-> FALSE, Conditions |-> <<>>]]

OldCluster ==
    [Labels |-> [nil |-> FALSE, m |-> [k \in {HiveClusterTypeLabel} |-> "managed"]],
     CreationTimestamp |-> Now - 25 * 60,
     Status |-> [Installed |-> FALSE, Conditions |-> <<>>]]

InstalledCluster ==
    [Labels |-> [nil |-> FALSE, m |-> [k \in {HiveClusterTypeLabel} |-> "managed"]],
     CreationTimestamp |-> 0,
     Status |-> [Installed |-> TRUE,
                 Conditions |-> <<[Type |-> "Unreachable", Status |-> ConditionTrue]>>]]

OddCluster ==
    [Labels |-> NilLabels, CreationTimestamp |-> 0,
     Status |-> [Installed |-> TRUE,
                 Conditions |-> <<[Type |-> OtherCondition, Status |-> ConditionTrue]>>]]

StartSnapshots ==
    {<<>>, <<NewCluster>>, <<NewCluster, OldCluster>>, <<InstalledCluster>>,
     <<InstalledCluster, NewCluster>>, <<NewCluster, OddCluster>>}

\* what Client.List returns for the install and the uninstall jobs
StartJobLists ==
    {<<>>,
     <<[Status |-> [CompletionTime |-> <<>>, Failed |-> 0]]>>,
     <<[Status |-> [CompletionTime |-> <<>>, Failed |-> 0]],
       [Status |-> [CompletionTime |-> <<>>, Failed |-> 2]],
       [Status |-> [CompletionTime |-> <<Now>>, Failed |-> 1]]>>}

ClusterGauges == {"total", "installed", "uninstalled", "conditions"}

InstallJobGauges == {"installJobsRunning", "installJobsFailed"}

UninstallJobGauges == {"uninstallJobsRunning", "uninstallJobsFailed"}

StartInit ==
    /\ loop = "check" /\ pass = "idle" /\ stopped = FALSE /\ passes = 0
    /\ inFlight = 0 /\ gauges = NoGauges
    /\ attempted = {} /\ failed = {} /\ written = {}
    /\ ca = NilAccumulator /\ err = FALSE /\ buckets = StartBuckets /\ cd = <<>>
    /\ panicked = FALSE /\ calls = 0 /\ seenTypes = {} /\ matched = {} /\ ensured = <<>>
    /\ JobsUnused

\* close(stopCh), by the manager
Stop ==
    /\ ~stopped
    /\ stopped' = TRUE
    /\ UNCHANGED <<loop, pass, passes, inFlight, gauges, attempted, failed, written,
                   accVars, jobVars>>

\* "case <-stopCh: return", at the top of the loop or while sleeping
Return ==
    /\ loop \in {"check", "sleep"}
    /\ stopped
    /\ loop' = "returned"
    /\ UNCHANGED <<pass, stopped, passes, inFlight, gauges, attempted, failed, written,
                   accVars, jobVars>>

\* "case <-t.C:", the interval has elapsed since the pass ended
TimerFires ==
    /\ loop = "sleep"
    /\ loop' = "check"
    /\ UNCHANGED <<pass, stopped, passes, inFlight, gauges, attempted, failed, written,
                   accVars, jobVars>>

\* mutant: the pass runs in a goroutine of its own ("go f()") and the loop
\* goes to sleep at once
StartPassAsync ==
    /\ loop = "check"
    /\ ~stopped
    /\ passes < MaxPasses
    /\ loop' = "sleep"
    /\ pass' = "clusters"
    /\ passes' = passes + 1
    /\ inFlight' = inFlight + 1
    /\ attempted' = {} /\ failed' = {} /\ written' = {}
    /\ UNCHANGED <<stopped, gauges, accVars, jobVars>>

\* the loop calls the pass function and blocks until it returns
StartPass ==
    /\ loop = "check"
    /\ ~stopped
    /\ passes < MaxPasses
    /\ loop' = "running"
    /\ pass' = "clusters"
    /\ passes' = passes + 1
    /\ inFlight' = inFlight + 1
    /\ attempted' = {} /\ failed' = {} /\ written' = {}
    /\ UNCHANGED <<stopped, gauges, accVars, jobVars>>

\* the cluster deployments were listed: build the accumulator, feed it every
\* item, publish.  A constructor error returns from the pass; a panic in
\* processCluster unwinds through wait.Until (HandleCrash panics again).
clusterMetrics(items) ==
    LET n == newClusterAccumulator(<<>>, buckets)
        r == accumulate(n.ca, items)
    IN  /\ err' = n.err
        /\ ca' = IF n.err THEN NilAccumulator ELSE r.ca
        /\ panicked' = (~n.err /\ r.panicked)
        /\ IF n.err
           THEN /\ pass' = "idle" /\ loop' = "sleep" /\ inFlight' = inFlight - 1
                /\ UNCHANGED <<gauges, written>>
           ELSE IF r.panicked
           THEN /\ pass' = "idle" /\ loop' = "crashed" /\ inFlight' = inFlight - 1
                /\ UNCHANGED <<gauges, written>>
           ELSE /\ pass' = "installJobs"
                /\ gauges' = setMetrics(gauges, r.ca)
                /\ written' = written \cup SetBy(r.ca)
                /\ UNCHANGED <<loop, inFlight>>

\* mutant: "return" after logging the List error
ClusterMetricsReturnOnError ==
    /\ pass = "clusters"
    /\ attempted' = attempted \cup {"clusterDeployments"}
    /\ \/ /\ failed' = failed \cup {"clusterDeployments"}
          /\ pass' = "idle" /\ loop' = "sleep" /\ inFlight' = inFlight - 1
          /\ UNCHANGED <<gauges, written, ca, err, panicked>>
       \/ /\ \E items \in StartSnapshots : clusterMetrics(items)
          /\ UNCHANGED failed
    /\ UNCHANGED <<stopped, passes, buckets, cd, calls, seenTypes, matched, ensured, jobVars>>

\* lines 123-144: list the cluster deployments, then the cluster metrics
ClusterMetrics ==
    /\ pass = "clusters"
    /\ attempted' = attempted \cup {"clusterDeployments"}
    /\ \/ /\ failed' = failed \cup {"clusterDeployments"}
          /\ pass' = "installJobs"
          /\ UNCHANGED <<loop, inFlight, gauges, written, ca, err, panicked>>
       \/ /\ \E items \in StartSnapshots : clusterMetrics(items)
          /\ UNCHANGED failed
    /\ UNCHANGED <<stopped, passes, buckets, cd, calls, seenTypes, matched, ensured, jobVars>>

\* lines 147-159: list the install jobs, set the two install-job gauges
InstallJobMetrics ==
    /\ pass = "installJobs"
    /\ attempted' = attempted \cup {"installJobs"}
    /\ \/ /\ failed' = failed \cup {"installJobs"}
          /\ UNCHANGED <<gauges, written>>
       \/ /\ \E list \in StartJobLists :
                 LET t == processJobs(list)
                 IN  gauges' = [gauges EXCEPT
                                   !.installJobsRunning = Float64(t.runningTotal),
                                   !.installJobsFailed  = Float64(t.failedTotal)]
          /\ written' = written \cup InstallJobGauges
          /\ UNCHANGED failed
    /\ pass' = "uninstallJobs"
    /\ UNCHANGED <<loop, stopped, passes, inFlight, accVars, jobVars>>

\* lines 161-177: list the uninstall jobs, set the two uninstall-job gauges;
\* the pass function returns
UninstallJobMetrics ==
    /\ pass = "uninstallJobs"
    /\ attempted' = attempted \cup {"uninstallJobs"}
    /\ \/ /\ failed' = failed \cup {"uninstallJobs"}
          /\ UNCHANGED <<gauges, written>>
       \/ /\ \E list \in StartJobLists :
                 LET t == processJobs(list)
                 IN  gauges' = [gauges EXCEPT
                                   !.uninstallJobsRunning = Float64(t.runningTotal),
                                   !.uninstallJobsFailed  = Float64(t.failedTotal)]
          /\ written' = written \cup UninstallJobGauges
          /\ UNCHANGED failed
    /\ pass' = "idle"
    /\ loop' = "sleep"
    /\ inFlight' = inFlight - 1
    /\ UNCHANGED <<stopped, passes, accVars, jobVars>>

StartNext ==
    \/ Stop
    \/ Return
    \/ TimerFires
    \/ StartPass
    \/ ClusterMetrics
    \/ InstallJobMetrics
    \/ UninstallJobMetrics

StartSpec == StartInit /\ [][StartNext]_vars

\* The same loop with the bucket strings of line 130 as a parameter: the
\* literals of Start, or a list with a string that does not parse.  This is
\* the only way into the error branch of lines 131-134.
StartConfigInit ==
    /\ loop = "check" /\ pass = "idle" /\ stopped = FALSE /\ passes = 0
    /\ inFlight = 0 /\ gauges = NoGauges
    /\ attempted = {} /\ failed = {} /\ written = {}
    /\ ca = NilAccumulator /\ err = FALSE /\ cd = <<>>
    /\ buckets \in {StartBuckets} \cup {b \in BucketLists : parseBuckets(b, EmptyMap).err}
    /\ panicked = FALSE /\ calls = 0 /\ seenTypes = {} /\ matched = {} /\ ensured = <<>>
    /\ JobsUnused

StartConfigSpec == StartConfigInit /\ [][StartNext]_vars

----------------------------------------------------------------------------
(* Properties of the Start loop (specification StartSpec) *)

\* C9 (at most one pass at a time): the number of passes in progress is 0 or
\* 1, and a pass is in progress only while the loop is blocked in it, so no
\* pass starts before the one before it has ended.
AtMostOnePass ==
    /\ inFlight \in {0, 1}
    /\ inFlight = 1 <=> pass # "idle"
    /\ pass # "idle" => loop = "running"

\* the second pass is in progress, after the first one ran to its end
AtMostOnePassWitness ==
    /\ passes = 2
    /\ inFlight = 1
    /\ pass = "uninstallJobs"
    /\ loop = "running"

\* the latest pass has returned
Ended == pass = "idle" /\ loop \in {"sleep", "check", "returned"} /\ passes > 0

\* C10 (fetch failures are independent): a pass whose cluster list failed
\* sets no cluster gauge but still makes both job lists and sets the gauges
\* of each one that succeeds; a pass whose install-job list failed does not
\* set the install-job gauges but still makes the uninstall-job list and sets
\* its gauges on success.
FetchFailuresIndependent ==
    /\ "clusterDeployments" \in failed =>
          /\ written \cap ClusterGauges = {}
          /\ pass \in {"uninstallJobs", "idle"} => "installJobs" \in attempted
          /\ Ended => {"installJobs", "uninstallJobs"} \subseteq attempted
          /\ ("installJobs" \in attempted \ failed) => InstallJobGauges \subseteq written
          /\ ("uninstallJobs" \in attempted \ failed) => UninstallJobGauges \subseteq written
    /\ "installJobs" \in failed =>
          /\ written \cap InstallJobGauges = {}
          /\ Ended => "uninstallJobs" \in attempted
          /\ ("uninstallJobs" \in attempted \ failed) => UninstallJobGauges \subseteq written

\* a pass ended whose cluster list and install-job list both failed and whose
\* uninstall-job list set its gauges
FetchFailuresWitness ==
    /\ Ended
    /\ failed = {"clusterDeployments", "installJobs"}
    /\ written = UninstallJobGauges
    /\ gauges.uninstallJobsRunning = 1
    /\ gauges.uninstallJobsFailed = 1
    /\ gauges.total = EmptyMap

ForwardProgress ==
    ~stopped => loop \in {"check", "running", "sleep"}

\* the step of the pass that follows step p
StepAfter(p) ==
    IF p = "clusters" THEN "installJobs"
    ELSE IF p = "installJobs" THEN "uninstallJobs"
    ELSE "idle"

\* C13 (cooperative cancellation): once the stop signal is raised no new pass
\* starts; a pass in flight is not interrupted and goes through each of its
\* remaining steps (cluster metrics, install-job metrics, uninstall-job
\* metrics); and the loop leaves by returning from Start.
CooperativeCancellation ==
    [][stopped =>
          /\ stopped'
          /\ passes' = passes
          /\ pass # "idle" => pass' \in {pass, StepAfter(pass)}
          /\ loop' # loop => loop' \in {"sleep", "check", "returned"}]_vars

\* the part of C13 about new passes alone
NoPassStartsAfterStop ==
    [][stopped => (stopped' /\ passes' = passes)]_vars

\* the cluster-type label of the series x of gauge vector n
LabelType(n, x) == IF n \in {"total", "installed"} THEN x ELSE x[1]

\* the label tuples of gauge vector n that the maps of acc hold
Combos(acc, n) ==
    IF n = "total" THEN DOMAIN acc.total
    ELSE IF n = "installed" THEN DOMAIN acc.installed
    ELSE IF n = "uninstalled" THEN DOMAIN ByLabels(acc.uninstalled)
    ELSE DOMAIN ByLabels(acc.conditions)

\* C14 (stale label combinations are not reset): a step writes only series
\* whose label combination is in the maps of the current pass's accumulator;
\* a series published earlier whose type does not occur in the current
\* accumulator stays, with the value it had.
StaleSeriesKept ==
    [][\A n \in ClusterGauges :
          /\ \A x \in DOMAIN gauges[n] :
                LabelType(n, x) \notin DOMAIN ca'.total =>
                    x \in DOMAIN gauges'[n] /\ gauges'[n][x] = gauges[n][x]
          /\ \A x \in DOMAIN gauges'[n] :
                (x \notin DOMAIN gauges[n] \/ gauges'[n][x] # gauges[n][x]) =>
                    x \in Combos(ca', n)]_vars

\* the second pass has published a snapshot without the type "managed"; the
\* series the first pass published for it are still there, with counts
StaleSeriesWitness ==
    /\ passes = 2 /\ pass = "installJobs"
    /\ "total" \in written
    /\ DOMAIN ca.total = {DefaultClusterType}
    /\ "managed" \in DOMAIN gauges.total /\ gauges.total["managed"] = 1
    /\ <<"managed", B24h>> \in DOMAIN gauges.uninstalled
    /\ gauges.uninstalled[<<"managed", B24h>>] = 1
    /\ gauges.total[DefaultClusterType] = 1

\* the pass has run setMetrics on the accumulator ca
Published ==
    /\ "clusterDeployments" \in attempted \ failed
    /\ pass # "clusters"
    /\ ~err /\ ~panicked

\* C16 (publish writes every entry exactly): after setMetrics the total and
\* installed gauges at label (t) read total[t] and installed[t], the
\* uninstalled gauge at (type = t, bucket = b) reads uninstalled[b][t] and the
\* condition gauge at (type = t, condition = c) reads conditions[c][t], for
\* every key of the maps, the zero-seeded ones included.
PublishExact ==
    Published =>
        /\ \A t \in DOMAIN ca.total :
              t \in DOMAIN gauges.total /\ gauges.total[t] = Float64(ca.total[t])
        /\ \A t \in DOMAIN ca.installed :
              /\ t \in DOMAIN gauges.installed
              /\ gauges.installed[t] = Float64(ca.installed[t])
        /\ \A b \in DOMAIN ca.uninstalled : \A t \in DOMAIN ca.uninstalled[b] :
              /\ <<t, b>> \in DOMAIN gauges.uninstalled
              /\ gauges.uninstalled[<<t, b>>] = Float64(ca.uninstalled[b][t])
        /\ \A c \in DOMAIN ca.conditions : \A t \in DOMAIN ca.conditions[c] :
              /\ <<t, c>> \in DOMAIN gauges.conditions
              /\ gauges.conditions[<<t, c>>] = Float64(ca.conditions[c][t])

\* published: counts above zero next to zero-seeded entries written as 0
PublishExactWitness ==
    /\ Published
    /\ DOMAIN ca.total = {"managed", DefaultClusterType}
    /\ gauges.total["managed"] = 1 /\ gauges.installed["managed"] = 0
    /\ gauges.uninstalled[<<"managed", B24h>>] = 1
    /\ gauges.uninstalled[<<"managed", B72h>>] = 0
    /\ gauges.uninstalled[<<DefaultClusterType, B0h>>] = 1
    /\ gauges.conditions[<<"managed", "Unreachable">>] = 0

\* C17 (conditions are counted regardless of installed state): for every
\* processed record, installed or not, and every known condition type c,
\* conditions[c][type] grows by the number of the record's entries of type c
\* with status true (entries with another status add nothing), and the
\* counts of the other types stay.
ConditionsCounted ==
    [][(Called /\ ~filteredOut(ca, cd'[1])) =>
          LET d == cd'[1]
              t == GetClusterDeploymentType(d)
          IN  \A c \in AllClusterDeploymentConditions :
                  /\ ca'.conditions[c][t] =
                         Count(ca.conditions[c], t) + TrueEntries(d.Status.Conditions, c)
                  /\ \A u \in DOMAIN ca.conditions[c] \ {t} :
                         ca'.conditions[c][u] = ca.conditions[c][u]]_vars

----------------------------------------------------------------------------
(* ensureClusterTypeBuckets called on an accumulator in use *)

\* the types ensureClusterTypeBuckets is called with
EnsureTypes == {"managed", DefaultClusterType, "osd"}

\* the records fed to the accumulator between the calls
EnsureRecords == {NewCluster, OldCluster, InstalledCluster}

\* a call of ca.ensureClusterTypeBuckets(t), lines 241-266
EnsureClusterTypeBuckets(t) ==
    /\ ~err
    /\ ~panicked
    /\ Len(ensured) < MaxEnsures
    /\ ca' = ensureClusterTypeBuckets(ca, t)
    /\ ensured' = Append(ensured, [type |-> t, had |-> Count(ca.total, t)])
    /\ UNCHANGED <<err, buckets, cd, panicked, calls, seenTypes, matched,
                   jobVars, startVars>>

EnsureNext ==
    \/ \E d \in EnsureRecords : ProcessCluster(d)
    \/ \E t \in EnsureTypes : EnsureClusterTypeBuckets(t)

EnsureSpec == Init /\ [][EnsureNext]_vars

\* every entry of m is in m2 with the same count
Kept(m, m2) == \A x \in DOMAIN m : x \in DOMAIN m2 /\ m2[x] = m[x]

\* m2 is m with a key t, 0 where m had none
Seeded(m, m2, t) ==
    /\ Kept(m, m2)
    /\ DOMAIN m2 = DOMAIN m \cup {t}
    /\ t \notin DOMAIN m => m2[t] = 0

\* C18 (ensureClusterTypeBuckets is idempotent and non-destructive): a call
\* for type t keeps every existing count in every map, of t and of the other
\* types, and adds only keys t holding 0; a call for a type that is already
\* there changes nothing, and calling again after the call changes nothing.
EnsureIdempotent ==
    [][ensured' # ensured =>
          LET t == ensured'[Len(ensured')].type
          IN  /\ Seeded(ca.total, ca'.total, t)
              /\ Seeded(ca.installed, ca'.installed, t)
              /\ DOMAIN ca'.uninstalled = DOMAIN ca.uninstalled
              /\ \A k \in DOMAIN ca.uninstalled :
                     Seeded(ca.uninstalled[k], ca'.uninstalled[k], t)
              /\ DOMAIN ca'.conditions = DOMAIN ca.conditions
              /\ \A c \in DOMAIN ca.conditions :
                     Seeded(ca.conditions[c], ca'.conditions[c], t)
              /\ ca'.clusterCreationTimeFilter = ca.clusterCreationTimeFilter
              /\ t \in DOMAIN ca.total => ca' = ca
              /\ ensureClusterTypeBuckets(ca', t) = ca']_vars

\* two calls in a row for a type that had a count of 1 before each, next to
\* a call for a type no record had
EnsureIdempotentWitness ==
    /\ Len(ensured) = 2
    /\ ensured[1] = [type |-> "managed", had |-> 1]
    /\ ensured[2] = [type |-> "managed", had |-> 1]
    /\ ca.total["managed"] = 1
    /\ ca.installed["managed"] = 1
    /\ ca.conditions["Unreachable"]["managed"] = 1

----------------------------------------------------------------------------
(* Properties of the accumulator that no single sentence states (Spec) *)

\* the buckets are ordered in acc: a bucket with the lower threshold holds,
\* for every type, at least the count of a bucket with the higher threshold
BucketsOrdered(acc) ==
    \A b1, b2 \in DOMAIN acc.uninstalled :
        ParseDuration(b1).d <= ParseDuration(b2).d =>
            \A t \in DOMAIN acc.uninstalled[b2] :
                /\ t \in DOMAIN acc.uninstalled[b1]
                /\ acc.uninstalled[b1][t] >= acc.uninstalled[b2][t]

\* C19 (cumulative buckets are ordered, total counts the processed records):
\* after every processCluster call the buckets are ordered as their
\* thresholds are, for every type; a call with a record that is not
\* cutoff-skipped adds one to total of the record's type and nothing to the
\* total of another type, and a call with a skipped record adds nothing.
OrderedBucketsAndTotals ==
    [][Called =>
          LET d == cd'[1]
              t == GetClusterDeploymentType(d)
          IN  /\ BucketsOrdered(ca')
              /\ IF filteredOut(ca, d)
                 THEN ca'.total = ca.total
                 ELSE /\ DOMAIN ca'.total = DOMAIN ca.total \cup {t}
                      /\ ca'.total[t] = Count(ca.total, t) + 1
                      /\ \A u \in DOMAIN ca.total \ {t} :
                             ca'.total[u] = ca.total[u]]_vars

\* two records of one type processed, one older than an hour and one not:
\* 2 in total, 2 over 0h, 1 over 1h
OrderedBucketsWitness ==
    /\ ~err /\ ~panicked /\ calls = 2
    /\ "managed" \in DOMAIN ca.total
    /\ ca.total["managed"] = 2
    /\ ca.uninstalled[B0h]["managed"] = 2
    /\ ca.uninstalled[B1h]["managed"] = 1

\* C20 (accumulation is order-independent): the maps after processing two
\* records through a fresh accumulator are the maps after processing the
\* same two records, at the same instant, in the other order.
OrderIndependent ==
    [][(Called /\ calls = 1) =>
          LET fresh == newClusterAccumulator(ca.clusterCreationTimeFilter, buckets).ca
              other == accumulate(fresh, <<cd'[1], cd[1]>>).ca
          IN  /\ ca'.total = other.total
              /\ ca'.installed = other.installed
              /\ ca'.uninstalled = other.uninstalled
              /\ ca'.conditions = other.conditions]_vars

====
